---- MODULE Spec2Model ----
(***************************************************************************)
(* Session lifecycle of the WhatsApp agent: the webhook (main.py), the     *)
(* Redis working copy, the Supabase "sessions" table, the background       *)
(* cleaner, close_session (chat_logic.py) and its profile-updater thread.  *)
(*                                                                         *)
(* One atomic step per network call (Redis or Supabase); the local         *)
(* computation that precedes a call is part of the step of that call.      *)
(* The clock advances in steps of ClockStep seconds. Redis and Supabase    *)
(* calls return in every specification but SpecFault and SpecReap:         *)
(* SpecFault adds the steps of the webhook when Redis is unreachable or a  *)
(* Supabase call raises, SpecReap the steps of the two sweeps              *)
(* (close_expired_sessions, check_expired_sessions) when a Supabase call   *)
(* raises. SpecLoad is the in-memory history of chat_logic.py              *)
(* (chat_history_store, last_activity_times), its lookups and its close;   *)
(* SpecHistory is one SupabaseMessageHistory. SpecRoute is one run of      *)
(* process_message (chat.py and chat_logic.py) through the intent          *)
(* classifiers and the handlers, SpecRouteDown the same with a Redis       *)
(* client that may raise.                                                  *)
(***************************************************************************)
EXTENDS Integers, Sequences, FiniteSets, TLC

\* ------------------------------------------------------------------ bounds
MaxTicks == 3          \* clock ticks in a behaviour
ClockStep == 20        \* seconds per clock tick
MaxMsgs == 2           \* inbound webhook messages in a behaviour of Spec
MaxCloseMsgs == 1      \* inbound webhook messages in a behaviour of SpecClose
MaxCloseCalls == 2     \* explicit close calls in a behaviour of SpecClose
MaxTextLen == 3        \* characters in a reply text of the classifier
MaxMemMsgs == 2        \* messages added to one in-memory history
MaxLoadCloses == 1     \* close calls in a behaviour of SpecLoad
MaxWindow == 2         \* max_messages of a SupabaseMessageHistory built on its own

\* ------------------------------------------------------- program constants
REDIS_TTL == 20        \* main.py:44, seconds
SWEEP_SLEEP == 60      \* main.py:480, seconds
max_retries == 3       \* chat_logic.py:244
retry_delay0 == 2      \* chat_logic.py:245, seconds
CALL_THRESHOLD == 800  \* chat_logic.py:1237 and chat.py:923: 0.8, in thousandths
INTRO_THRESHOLD == 700 \* chat.py:869: 0.7, in thousandths
SESSION_TIMEOUT == 20   \* chat_logic.py:49, seconds
max_messages == 20     \* chat_logic.py:570 and 650

Handlers == {1, 2}                 \* concurrent webhook requests
Phones == {"p1", "p2"}            \* the senders; p1 is in the users table
TzOffsets == {0, 30}              \* server local time minus UTC, seconds
None == "none"

VARIABLES
    now,        \* UTC clock, seconds
    tz,         \* offset of the server's local clock
    store,      \* Supabase table sessions: id -> row
    redis,      \* Redis: phone -> [sd, exp] or NoKey
    h,          \* webhook requests in flight: handler -> frame
    nmsg,       \* inbound messages received so far
    r,          \* frame of background_session_cleaner
    c,          \* frame of the client that calls the close entry points
    ncalls,     \* close calls made by the client so far
    lim,        \* the numbers of messages and of close calls of the behaviour,
                \* the phones that send, the number of requests that can be
                \* in flight together, and the state of the two backends
    notifs,     \* profile-updater threads started, in order
    appended,   \* history: <<session id, message>> of every exchange written
                \* to a row while its status was active
    n,          \* frame of one run of the profile-updater delivery
    files,      \* the directory failed_updates: the files written
    acks,       \* history: the responses the webhook has returned
    pm,         \* frame of one run of process_message through its router
    chat_history_store,
                \* chat_logic.py: session id -> the SupabaseMessageHistory of the
                \* session kept in memory
    last_activity_times
                \* chat_logic.py: session id -> the time of its last activity

vars == <<now, tz, store, redis, h, nmsg, r, c, ncalls, lim, notifs, appended, n, files,
          acks, pm, chat_history_store, last_activity_times>>

\* ------------------------------------------------------------------ values
\* A session id f"{user_id}_{int(time.time())}".
NoSid == [u |-> None, t |-> -1]
SessionId(uid, t) == [u |-> uid, t |-> t]

\* datetime.now().isoformat(): the digits of the local clock, no offset.
LocalNow == [w |-> now + tz, aware |-> FALSE]
\* datetime.now(timezone.utc).isoformat(): UTC digits with "+00:00".
UtcNow == [w |-> now, aware |-> TRUE]
\* The instant a stored timestamp denotes (naive ones are local time).
Instant(ts) == IF ts.aware THEN ts.w ELSE ts.w - tz
\* "Z" removed and everything from "+" cut off, then fromisoformat: the digits.
StripTz(ts) == ts.w

\* users table: phone_number -> id.
get_user_id(p) == IF p = "p1" THEN "u1" ELSE None

\* The two entries one exchange appends to session_data["messages"].
Exchange(m) == << [id |-> m, role |-> "user", ts |-> UtcNow],
                  [id |-> m, role |-> "assistant", ts |-> UtcNow] >>

\* The session get_or_create_session returns when it cannot build one.
MinimalSession == [sid |-> NoSid, uid |-> None, msgs |-> <<>>, la |-> LocalNow]

\* The frame value of a request or key that holds no session.
IdleSession == [sid |-> NoSid, uid |-> None, msgs |-> <<>>, la |-> [w |-> 0, aware |-> FALSE]]

NoKey == [sd |-> IdleSession, exp |-> -1]
Live(p) == redis[p].exp > now
\* Redis answers; when it does not, every redis_client call raises.
CacheUp == lim.cache = "up"
\* A Supabase call may raise.
StoreFlaky == lim.store = "flaky"
Setex(p, sd) == [redis EXCEPT ![p] = [sd |-> sd, exp |-> now + REDIS_TTL]]

\* A row of sessions. null is TRUE when the messages column was never written.
Row(p, start, la, msgs, null) ==
    [phone |-> p, status |-> "active", start |-> start, la |-> la,
     msgs |-> msgs, null |-> null]

Ids == DOMAIN store
ActiveIds(p) == {s \in Ids : store[s].phone = p /\ store[s].status = "active"}

\* insert: a second row with an existing id is rejected (the caller's except
\* clause logs it and goes on).
Insert(s, row) == IF s \in Ids THEN store ELSE store @@ (s :> row)

Closed(s) == s \in Ids /\ store[s].status = "closed"
Active(s) == s \in Ids /\ store[s].status = "active"

\* order("start_time", desc=True).limit(1): a row with the greatest start_time.
Latest(S) == {s \in S : \A s2 \in S : store[s2].start.w <= store[s].start.w}

\* ------------------------------------------------------------ the webhook
\* err is history: the internal failures the request has met.
IdleFrame == [pc |-> "idle", phone |-> "p1", m |-> 0, sd |-> IdleSession, ok |-> FALSE,
              err |-> {}]

\* whatsapp_webhook is entered with one inbound message of phone p.
Receive(hd, p) ==
    /\ h[hd].pc = "idle"
    /\ \A h2 \in Handlers : h[h2].pc = "idle" => hd <= h2
    /\ nmsg < lim.msgs
    /\ Cardinality({x \in Handlers : h[x].pc # "idle"}) < lim.par
    /\ p \in lim.senders
    /\ nmsg' = nmsg + 1
    /\ h' = [h EXCEPT ![hd] = [IdleFrame EXCEPT !.pc = "exists", !.phone = p, !.m = nmsg + 1]]
    /\ UNCHANGED <<now, tz, store, redis, r, c, ncalls, lim, notifs, appended, n, files, acks, pm, chat_history_store, last_activity_times>>

\* get_or_create_session: redis_client.exists(session_key).
Exists(hd) ==
    /\ h[hd].pc = "exists"
    /\ CacheUp
    /\ h' = [h EXCEPT ![hd].pc = IF Live(h[hd].phone) THEN "get" ELSE "lookup"]
    /\ UNCHANGED <<now, tz, store, redis, nmsg, r, c, ncalls, lim, notifs, appended, n, files, acks, pm, chat_history_store, last_activity_times>>

\* get_or_create_session: redis_client.get and expire. A key that went away
\* since exists makes json.loads(None) raise: the except clause returns the
\* minimal session.
Get(hd) ==
    LET p == h[hd].phone IN
    /\ h[hd].pc = "get"
    /\ CacheUp
    /\ IF Live(p)
       THEN /\ h' = [h EXCEPT ![hd].sd = redis[p].sd, ![hd].pc = "process"]
            /\ redis' = [redis EXCEPT ![p].exp = now + REDIS_TTL]
       ELSE /\ h' = [h EXCEPT ![hd].sd = MinimalSession, ![hd].pc = "process"]
            /\ UNCHANGED redis
    /\ UNCHANGED <<now, tz, store, nmsg, r, c, ncalls, lim, notifs, appended, n, files, acks, pm, chat_history_store, last_activity_times>>

\* The session_data built from the id of the row alone.
Hydrate_fresh(s, uid) ==
    [sid |-> s, uid |-> uid, msgs |-> <<>>, la |-> store[s].la]

\* The session_data built from the active row s of Supabase.
Hydrate(s, uid) ==
    [sid |-> s, uid |-> uid,
     msgs |-> IF store[s].null THEN <<>> ELSE store[s].msgs,
     la |-> store[s].la]

\* get_or_create_session on a Redis miss: get_user_id, then
\* get_active_supabase_session; the new session_data is built when none is found.
Lookup(hd) ==
    LET p == h[hd].phone
        uid == get_user_id(p) IN
    /\ h[hd].pc = "lookup"
    /\ IF uid = None
       THEN h' = [h EXCEPT ![hd].sd = MinimalSession, ![hd].pc = "process"]
       ELSE IF ActiveIds(p) # {}
       THEN \E s \in Latest(ActiveIds(p)) :
                h' = [h EXCEPT ![hd].sd = Hydrate(s, uid), ![hd].pc = "setex"]
       ELSE h' = [h EXCEPT ![hd].sd = [sid |-> SessionId(uid, now), uid |-> uid,
                                       msgs |-> <<>>, la |-> LocalNow],
                           ![hd].pc = "insert"]
    /\ UNCHANGED <<now, tz, store, redis, nmsg, r, c, ncalls, lim, notifs, appended, n, files, acks, pm, chat_history_store, last_activity_times>>

\* get_or_create_session: supabase.table("sessions").insert(session_info).
InsertSession(hd) ==
    LET f == h[hd] IN
    /\ f.pc = "insert"
    /\ store' = Insert(f.sd.sid, Row(f.phone, f.sd.la, f.sd.la, <<>>, FALSE))
    /\ h' = [h EXCEPT ![hd].pc = "setex"]
    /\ UNCHANGED <<now, tz, redis, nmsg, r, c, ncalls, lim, notifs, appended, n, files, acks, pm, chat_history_store, last_activity_times>>

\* get_or_create_session: redis_client.setex(session_key, REDIS_TTL, ...).
SetexSession(hd) ==
    /\ h[hd].pc = "setex"
    /\ CacheUp
    /\ redis' = Setex(h[hd].phone, h[hd].sd)
    /\ h' = [h EXCEPT ![hd].pc = "process"]
    /\ UNCHANGED <<now, tz, store, nmsg, r, c, ncalls, lim, notifs, appended, n, files, acks, pm, chat_history_store, last_activity_times>>

\* process_message cannot resolve the user: it returns success False and the
\* session_data as given; the webhook then sets last_activity and writes the
\* session to Redis.
ProcessFail(hd) ==
    LET f == h[hd]
        sd == [f.sd EXCEPT !.la = LocalNow] IN
    /\ f.pc = "process"
    /\ f.sd.uid = None /\ get_user_id(f.phone) = None
    /\ CacheUp
    /\ redis' = Setex(f.phone, sd)
    /\ h' = [h EXCEPT ![hd].sd = sd, ![hd].ok = FALSE, ![hd].pc = "wupdate",
                       ![hd].err = @ \cup {"process"}]
    /\ UNCHANGED <<now, tz, store, nmsg, r, c, ncalls, lim, notifs, appended, n, files, acks, pm, chat_history_store, last_activity_times>>

\* process_message on a session_data without session_id: it synthesizes an id
\* and inserts the row (no messages column, UTC timestamps).
ProcessInsert(hd) ==
    LET f == h[hd]
        uid == IF f.sd.uid = None THEN get_user_id(f.phone) ELSE f.sd.uid
        sid == SessionId(uid, now) IN
    /\ f.pc = "process"
    /\ uid # None /\ f.sd.sid = NoSid
    /\ store' = Insert(sid, Row(f.phone, UtcNow, UtcNow, <<>>, TRUE))
    /\ h' = [h EXCEPT ![hd].sd = [f.sd EXCEPT !.uid = uid, !.sid = sid],
                       ![hd].pc = "respond"]
    /\ UNCHANGED <<now, tz, redis, nmsg, r, c, ncalls, lim, notifs, appended, n, files, acks, pm, chat_history_store, last_activity_times>>

\* The same with the exchange put in front of the messages.
Respond_prepend(hd) ==
    LET f == h[hd]
        sd == [f.sd EXCEPT !.msgs = Exchange(f.m) \o f.sd.msgs, !.la = LocalNow] IN
    /\ \/ f.pc = "respond"
       \/ f.pc = "process" /\ f.sd.sid # NoSid
    /\ CacheUp
    /\ redis' = Setex(f.phone, sd)
    /\ h' = [h EXCEPT ![hd].sd = sd, ![hd].ok = TRUE, ![hd].pc = "wupdate"]
    /\ UNCHANGED <<now, tz, store, nmsg, r, c, ncalls, lim, notifs, appended, n, files, acks, pm, chat_history_store, last_activity_times>>

\* process_message appends the exchange (user message, reply) and returns
\* success; the webhook sets last_activity and writes the session to Redis.
Respond(hd) ==
    LET f == h[hd]
        sd == [f.sd EXCEPT !.msgs = f.sd.msgs \o Exchange(f.m), !.la = LocalNow] IN
    /\ \/ f.pc = "respond"
       \/ f.pc = "process" /\ f.sd.sid # NoSid
    /\ CacheUp
    /\ redis' = Setex(f.phone, sd)
    /\ h' = [h EXCEPT ![hd].sd = sd, ![hd].ok = TRUE, ![hd].pc = "wupdate"]
    /\ UNCHANGED <<now, tz, store, nmsg, r, c, ncalls, lim, notifs, appended, n, files, acks, pm, chat_history_store, last_activity_times>>

\* update({last_activity, messages}).eq("id", sid): every row with that id,
\* whatever its status.
UpdateSession(sid, sd) ==
    IF sid \in Ids
    THEN [store EXCEPT ![sid].la = sd.la, ![sid].msgs = sd.msgs, ![sid].null = FALSE]
    ELSE store

\* The response of the webhook to message f.m: the reply of process_message,
\* or the apology when it reported no success. written tells whether the
\* update of the row carried the session of this request into Supabase.
Ack(f, written) ==
    [m |-> f.m, phone |-> f.phone, reply |-> IF f.ok THEN "normal" ELSE "apology",
     written |-> written, err |-> f.err]

\* whatsapp_webhook: the Supabase update of the session, when session_data has
\* a session_id; then the reply is sent and the request ends.
WUpdate(hd) ==
    LET f == h[hd]
        sid == f.sd.sid IN
    /\ f.pc = "wupdate"
    /\ store' = IF sid # NoSid THEN UpdateSession(sid, f.sd) ELSE store
    /\ appended' = IF f.ok /\ sid \in Ids /\ store[sid].status = "active"
                   THEN appended \cup {<<sid, f.m>>}
                   ELSE appended
    /\ acks' = acks \cup {Ack(f, sid \in Ids)}
    /\ h' = [h EXCEPT ![hd] = IdleFrame]
    /\ UNCHANGED <<now, tz, redis, nmsg, r, c, ncalls, lim, notifs, n, files, pm, chat_history_store, last_activity_times>>

\* ------------------------------------------- the webhook, a backend failing
\* redis_client.exists raises: the except clause of get_or_create_session
\* returns the minimal session.
ExistsDown(hd) ==
    /\ h[hd].pc = "exists"
    /\ ~CacheUp
    /\ h' = [h EXCEPT ![hd].sd = MinimalSession, ![hd].pc = "process",
                       ![hd].err = @ \cup {"session"}]
    /\ UNCHANGED <<now, tz, store, redis, nmsg, r, c, ncalls, lim, notifs, appended, n, files, acks, pm, chat_history_store, last_activity_times>>

\* get_or_create_session on a Redis miss with a Supabase select that raises:
\* get_user_id then returns None (the minimal session is returned), and
\* get_active_supabase_session returns None (a new session is built).
LookupFail(hd) ==
    LET p == h[hd].phone
        uid == get_user_id(p) IN
    /\ h[hd].pc = "lookup"
    /\ StoreFlaky
    /\ \/ h' = [h EXCEPT ![hd].sd = MinimalSession, ![hd].pc = "process",
                          ![hd].err = @ \cup {"session"}]
       \/ /\ uid # None
          /\ h' = [h EXCEPT ![hd].sd = [sid |-> SessionId(uid, now), uid |-> uid,
                                         msgs |-> <<>>, la |-> LocalNow],
                             ![hd].pc = "insert", ![hd].err = @ \cup {"session"}]
    /\ UNCHANGED <<now, tz, store, redis, nmsg, r, c, ncalls, lim, notifs, appended, n, files, acks, pm, chat_history_store, last_activity_times>>

\* get_or_create_session: the insert raises; it is logged and the session goes
\* to Redis all the same.
InsertSessionFail(hd) ==
    /\ h[hd].pc = "insert"
    /\ StoreFlaky
    /\ h' = [h EXCEPT ![hd].pc = "setex", ![hd].err = @ \cup {"session"}]
    /\ UNCHANGED <<now, tz, store, redis, nmsg, r, c, ncalls, lim, notifs, appended, n, files, acks, pm, chat_history_store, last_activity_times>>

\* process_message on a session_data without session_id: the insert raises; it
\* is logged and processing goes on with the synthesized id.
ProcessInsertFail(hd) ==
    LET f == h[hd]
        uid == IF f.sd.uid = None THEN get_user_id(f.phone) ELSE f.sd.uid IN
    /\ f.pc = "process"
    /\ uid # None /\ f.sd.sid = NoSid
    /\ StoreFlaky
    /\ h' = [h EXCEPT ![hd].sd = [f.sd EXCEPT !.uid = uid, !.sid = SessionId(uid, now)],
                       ![hd].pc = "respond", ![hd].err = @ \cup {"session"}]
    /\ UNCHANGED <<now, tz, store, redis, nmsg, r, c, ncalls, lim, notifs, appended, n, files, acks, pm, chat_history_store, last_activity_times>>

\* process_message on a session_data without user_id: the select of its
\* get_user_id raises, None comes back and success False is returned; the
\* webhook sets last_activity and writes the session to Redis.
ProcessError(hd) ==
    LET f == h[hd]
        sd == [f.sd EXCEPT !.la = LocalNow] IN
    /\ f.pc = "process" /\ f.sd.uid = None
    /\ StoreFlaky
    /\ CacheUp
    /\ redis' = Setex(f.phone, sd)
    /\ h' = [h EXCEPT ![hd].sd = sd, ![hd].ok = FALSE, ![hd].pc = "wupdate",
                       ![hd].err = @ \cup {"process"}]
    /\ UNCHANGED <<now, tz, store, nmsg, r, c, ncalls, lim, notifs, appended, n, files, acks, pm, chat_history_store, last_activity_times>>

\* whatsapp_webhook: redis_client.setex (main.py 293) raises after
\* process_message has returned; the except clause of the webhook answers with
\* the apology, and the Supabase update is not reached.
RespondDown(hd) ==
    LET f == h[hd] IN
    /\ f.pc \in {"process", "respond"}
    /\ f.pc = "process" =>
          \/ f.sd.sid # NoSid
          \/ f.sd.uid = None /\ (get_user_id(f.phone) = None \/ StoreFlaky)
    /\ ~CacheUp
    /\ acks' = acks \cup {Ack([f EXCEPT !.ok = FALSE, !.err = @ \cup {"cache_write"}], FALSE)}
    /\ h' = [h EXCEPT ![hd] = IdleFrame]
    /\ UNCHANGED <<now, tz, store, redis, nmsg, r, c, ncalls, lim, notifs, appended, n, files, pm, chat_history_store, last_activity_times>>

\* whatsapp_webhook: the Supabase update raises; it is logged, and the reply
\* of process_message is sent.
WUpdateFail(hd) ==
    LET f == h[hd] IN
    /\ f.pc = "wupdate"
    /\ f.sd.sid # NoSid
    /\ StoreFlaky
    /\ acks' = acks \cup {Ack([f EXCEPT !.err = @ \cup {"store_write"}], FALSE)}
    /\ h' = [h EXCEPT ![hd] = IdleFrame]
    /\ UNCHANGED <<now, tz, store, redis, nmsg, r, c, ncalls, lim, notifs, appended, n, files, pm, chat_history_store, last_activity_times>>

\* ------------------------------------------------------------ the clock
\* Time passes; Redis drops the keys whose TTL has run out.
Tick ==
    /\ now < MaxTicks * ClockStep
    /\ now' = now + ClockStep
    /\ redis' = [p \in Phones |-> IF redis[p].exp > now + ClockStep THEN redis[p] ELSE NoKey]
    /\ UNCHANGED <<tz, store, h, nmsg, r, c, ncalls, lim, notifs, appended, n, files, acks, pm, chat_history_store, last_activity_times>>

\* ------------------------------------------- close_session (chat_logic.py)
\* chat_history_store is empty in the webhook process (nothing in main.py
\* fills it), so the close_session the cleaner calls takes the branch that
\* loads the row from Supabase. It is two calls: the select and the update;
\* the thread is started right after the update.

\* select("*").eq("id", sid).single() followed by json.loads of the messages:
\* no row, or a row whose messages are NULL, raises, and close_session returns.
CloseFound(sid) == sid \in Ids /\ ~store[sid].null

\* update({end_time, status: "closed"}).eq("id", sid).
MarkClosed(sid) == IF sid \in Ids THEN [store EXCEPT ![sid].status = "closed"] ELSE store

\* threading.Thread(target=send_profile_update_async).start() with the
\* messages read by the select. due is history: the exchanges appended to the
\* row so far.
Notify(sid, msgs, by) ==
    Append(notifs, [sid |-> sid, msgs |-> msgs, by |-> by,
                    due |-> {m \in 1..MaxMsgs : <<sid, m>> \in appended}])

\* ------------------------------------- background_session_cleaner (main.py)
\* log is history: the close_session calls of the sweep in progress, in
\* order, each with what came of it.
SleepFrame(wake) ==
    [pc |-> "sleep", wake |-> wake, rnow |-> 0, keys |-> {}, key |-> "p1",
     cands |-> {}, sid |-> NoSid, msgs |-> <<>>, ret |-> "sleep", log |-> <<>>]

\* The age test against the timeout plus the sleep of the cleaner.
Expired_late(rnow, la) == rnow - StripTz(la) > REDIS_TTL + SWEEP_SLEEP

\* time_diff > REDIS_TTL, with now taken at the start of the sweep.
Expired(rnow, la) == rnow - StripTz(la) > REDIS_TTL

\* close_expired_sessions starts: now = datetime.now(), redis_client.keys.
SweepStart ==
    /\ r.pc = "sleep"
    /\ now >= r.wake
    /\ r' = [r EXCEPT !.pc = "rscan", !.rnow = now + tz, !.keys = {p \in Phones : Live(p)}]
    /\ UNCHANGED <<now, tz, store, redis, h, nmsg, c, ncalls, lim, notifs, appended, n, files, acks, pm, chat_history_store, last_activity_times>>

\* The Redis loop, one key: redis_client.get(key), then the age test. A key
\* that has gone raises, a session without session_id is skipped.
ScanKey ==
    /\ r.pc = "rscan"
    /\ \E p \in r.keys :
         LET sd == redis[p].sd IN
         IF Live(p) /\ sd.sid # NoSid /\ Expired(r.rnow, sd.la)
         THEN r' = [r EXCEPT !.keys = r.keys \ {p}, !.key = p, !.sid = sd.sid,
                             !.pc = "cread", !.ret = "rdel"]
         ELSE r' = [r EXCEPT !.keys = r.keys \ {p}]
    /\ UNCHANGED <<now, tz, store, redis, h, nmsg, c, ncalls, lim, notifs, appended, n, files, acks, pm, chat_history_store, last_activity_times>>

\* close_session called by the cleaner: the select.
ReaperCloseRead ==
    /\ r.pc = "cread"
    /\ r' = IF CloseFound(r.sid)
            THEN [r EXCEPT !.msgs = store[r.sid].msgs, !.pc = "cwrite"]
            ELSE [r EXCEPT !.sid = NoSid, !.pc = r.ret,
                           !.log = Append(@, [sid |-> r.sid, out |-> "raised"])]
    /\ UNCHANGED <<now, tz, store, redis, h, nmsg, c, ncalls, lim, notifs, appended, n, files, acks, pm, chat_history_store, last_activity_times>>

\* close_session called by the cleaner: the update, then the thread.
ReaperCloseWrite ==
    /\ r.pc = "cwrite"
    /\ store' = MarkClosed(r.sid)
    /\ notifs' = Notify(r.sid, r.msgs, "reaper")
    /\ r' = [r EXCEPT !.sid = NoSid, !.msgs = <<>>, !.pc = r.ret,
                      !.log = Append(@, [sid |-> r.sid,
                                         out |-> IF Closed(r.sid) THEN "closed before"
                                                 ELSE "closed"])]
    /\ UNCHANGED <<now, tz, redis, h, nmsg, c, ncalls, lim, appended, n, files, acks, pm, chat_history_store, last_activity_times>>

\* redis_client.delete(key) after close_session returned.
DelKey ==
    /\ r.pc = "rdel"
    /\ redis' = [redis EXCEPT ![r.key] = NoKey]
    /\ r' = [r EXCEPT !.pc = "rscan"]
    /\ UNCHANGED <<now, tz, store, h, nmsg, c, ncalls, lim, notifs, appended, n, files, acks, pm, chat_history_store, last_activity_times>>

\* The Redis loop is over: select("id, phone_number, last_activity")
\* .eq("status", "active").
SelectActive ==
    /\ r.pc = "rscan" /\ r.keys = {}
    /\ r' = [r EXCEPT !.pc = "sscan",
                      !.cands = {[sid |-> s, la |-> store[s].la] :
                                    s \in {x \in Ids : store[x].status = "active"}}]
    /\ UNCHANGED <<now, tz, store, redis, h, nmsg, c, ncalls, lim, notifs, appended, n, files, acks, pm, chat_history_store, last_activity_times>>

\* The Supabase loop, one listed session: the age test on the listed
\* last_activity, then close_session. close_session catches what it raises,
\* so the direct update of the except clause (main.py 450-456) is not entered.
ScanRow ==
    /\ r.pc = "sscan"
    /\ \E cd \in r.cands :
         IF Expired(r.rnow, cd.la)
         THEN r' = [r EXCEPT !.cands = r.cands \ {cd}, !.sid = cd.sid,
                             !.pc = "cread", !.ret = "sscan"]
         ELSE r' = [r EXCEPT !.cands = r.cands \ {cd}]
    /\ UNCHANGED <<now, tz, store, redis, h, nmsg, c, ncalls, lim, notifs, appended, n, files, acks, pm, chat_history_store, last_activity_times>>

\* close_expired_sessions returns; the cleaner sleeps 60 seconds.
SweepEnd ==
    /\ r.pc = "sscan" /\ r.cands = {}
    /\ r' = SleepFrame(now + SWEEP_SLEEP)
    /\ UNCHANGED <<now, tz, store, redis, h, nmsg, c, ncalls, lim, notifs, appended, n, files, acks, pm, chat_history_store, last_activity_times>>

\* --------------------------------- the sweep, a Supabase call of it raising
\* The select of the active rows raises: the except clause around the
\* Supabase loop logs it and close_expired_sessions returns.
SelectActiveFail ==
    /\ r.pc = "rscan" /\ r.keys = {}
    /\ StoreFlaky
    /\ r' = SleepFrame(now + SWEEP_SLEEP)
    /\ UNCHANGED <<now, tz, store, redis, h, nmsg, c, ncalls, lim, notifs, appended, n, files, acks, pm, chat_history_store, last_activity_times>>

\* The select of close_session raises and nothing catches it before the
\* except clause of the sweep: the sweep is over.
ReaperCloseReadFail_abort ==
    /\ r.pc = "cread"
    /\ StoreFlaky
    /\ r' = SleepFrame(now + SWEEP_SLEEP)
    /\ UNCHANGED <<now, tz, store, redis, h, nmsg, c, ncalls, lim, notifs, appended, n, files, acks, pm, chat_history_store, last_activity_times>>

\* The select of close_session raises: its except clause logs it and
\* close_session returns to the loop that called it.
ReaperCloseReadFail ==
    /\ r.pc = "cread"
    /\ StoreFlaky
    /\ r' = [r EXCEPT !.sid = NoSid, !.pc = r.ret,
                      !.log = Append(@, [sid |-> r.sid, out |-> "raised"])]
    /\ UNCHANGED <<now, tz, store, redis, h, nmsg, c, ncalls, lim, notifs, appended, n, files, acks, pm, chat_history_store, last_activity_times>>

\* The update of close_session raises: the row stays as it is, no thread is
\* started, and close_session returns to the loop that called it.
ReaperCloseWriteFail ==
    /\ r.pc = "cwrite"
    /\ StoreFlaky
    /\ r' = [r EXCEPT !.sid = NoSid, !.msgs = <<>>, !.pc = r.ret,
                      !.log = Append(@, [sid |-> r.sid, out |-> "raised"])]
    /\ UNCHANGED <<now, tz, store, redis, h, nmsg, c, ncalls, lim, notifs, appended, n, files, acks, pm, chat_history_store, last_activity_times>>

\* ----------------------------------- check_expired_sessions (chat_logic.py)
\* The sweep of chat_logic.py, run by the cleaner's loop in place of
\* close_expired_sessions. A last_activity without offset is taken as UTC.
ExpiredUtc(rnow, la) == rnow - la.w > SESSION_TIMEOUT

\* check_expired_sessions starts: the select of the active rows, then
\* current_time = datetime.now(timezone.utc). No active row: it returns.
CheckStart ==
    LET active == {x \in Ids : store[x].status = "active"} IN
    /\ r.pc = "sleep"
    /\ now >= r.wake
    /\ r' = IF active = {}
            THEN SleepFrame(now + SWEEP_SLEEP)
            ELSE [r EXCEPT !.pc = "uscan", !.rnow = now,
                           !.cands = {[sid |-> s, la |-> store[s].la] : s \in active}]
    /\ UNCHANGED <<now, tz, store, redis, h, nmsg, c, ncalls, lim, notifs, appended, n, files, acks, pm, chat_history_store, last_activity_times>>

\* The select raises: the outer except clause logs it.
CheckStartFail ==
    /\ r.pc = "sleep"
    /\ now >= r.wake
    /\ StoreFlaky
    /\ r' = SleepFrame(now + SWEEP_SLEEP)
    /\ UNCHANGED <<now, tz, store, redis, h, nmsg, c, ncalls, lim, notifs, appended, n, files, acks, pm, chat_history_store, last_activity_times>>

\* The loop, one listed session: the age test, then close_session.
CheckRow ==
    /\ r.pc = "uscan"
    /\ \E cd \in r.cands :
         IF ExpiredUtc(r.rnow, cd.la)
         THEN r' = [r EXCEPT !.cands = r.cands \ {cd}, !.sid = cd.sid,
                             !.pc = "cread", !.ret = "uscan"]
         ELSE r' = [r EXCEPT !.cands = r.cands \ {cd}]
    /\ UNCHANGED <<now, tz, store, redis, h, nmsg, c, ncalls, lim, notifs, appended, n, files, acks, pm, chat_history_store, last_activity_times>>

\* check_expired_sessions returns.
CheckEnd ==
    /\ r.pc = "uscan" /\ r.cands = {}
    /\ r' = SleepFrame(now + SWEEP_SLEEP)
    /\ UNCHANGED <<now, tz, store, redis, h, nmsg, c, ncalls, lim, notifs, appended, n, files, acks, pm, chat_history_store, last_activity_times>>

\* ------------------------------------------------ the explicit close calls
\* via names the entry point of the call in progress.
ClientIdle ==
    [pc |-> "idle", via |-> "direct", sd |-> IdleSession, sid |-> NoSid, msgs |-> <<>>,
     uid |-> None, p |-> None, out |-> NoSid, at |-> 0]

\* The session dicts a caller holds: the Redis copy of the phone, or the
\* minimal session get_or_create_session returns on an error.
ClientSessions(p) == {MinimalSession} \cup {redis[q].sd : q \in {x \in {p} : Live(x)}}

\* close_supabase_session(phone_number, session_data), up to the branch on
\* session_id: get_active_supabase_session, None returns at once.
close_supabase_session(p, sd) ==
    /\ c.pc = "idle"
    /\ ncalls < lim.closes
    /\ ncalls' = ncalls + 1
    /\ IF ActiveIds(p) = {}
       THEN c' = ClientIdle
       ELSE \E a \in Latest(ActiveIds(p)) :
              IF sd.sid # NoSid
              THEN c' = [ClientIdle EXCEPT !.pc = "cread", !.via = "manual", !.sid = sd.sid]
              ELSE c' = [ClientIdle EXCEPT !.pc = "manual", !.via = "manual", !.sid = a,
                                           !.sd = sd]
    /\ UNCHANGED <<now, tz, store, redis, h, nmsg, r, lim, notifs, appended, n, files, acks, pm, chat_history_store, last_activity_times>>

\* close_supabase_session without session_id: the manual update of the active
\* row to closed, with the caller's messages and last_activity.
ManualClose ==
    /\ c.pc = "manual"
    /\ store' = IF c.sid \in Ids
                THEN [store EXCEPT ![c.sid].status = "closed", ![c.sid].la = c.sd.la,
                                   ![c.sid].msgs = c.sd.msgs, ![c.sid].null = FALSE]
                ELSE store
    /\ c' = ClientIdle
    /\ UNCHANGED <<now, tz, redis, h, nmsg, r, ncalls, lim, notifs, appended, n, files, acks, pm, chat_history_store, last_activity_times>>

\* The stable sort of messages_json by timestamp: m put behind the entries of
\* the sorted list that are not later than it.
InsertByTimestamp(sorted, m) ==
    LET k == Cardinality({i \in DOMAIN sorted : sorted[i].ts.w <= m.ts.w}) IN
    SubSeq(sorted, 1, k) \o <<m>> \o SubSeq(sorted, k + 1, Len(sorted))

RECURSIVE SortByTimestamp(_)
SortByTimestamp(msgs) ==
    IF msgs = <<>> THEN <<>>
    ELSE InsertByTimestamp(SortByTimestamp(SubSeq(msgs, 1, Len(msgs) - 1)), msgs[Len(msgs)])

\* close_session(session_id) called directly. A session held in
\* chat_history_store is closed from that copy: messages_json is built from
\* its session_messages and sorted, last_activity is
\* last_activity_times.get(session_id, current_time).
close_session(sid) ==
    /\ c.pc = "idle"
    /\ ncalls < lim.closes
    /\ ncalls' = ncalls + 1
    /\ c' = IF sid \in DOMAIN chat_history_store
            THEN [ClientIdle EXCEPT
                    !.pc = "mclose", !.sid = sid,
                    !.msgs = SortByTimestamp(chat_history_store[sid].session_messages),
                    !.sd = [IdleSession EXCEPT
                              !.la = IF sid \in DOMAIN last_activity_times
                                     THEN last_activity_times[sid] ELSE UtcNow]]
            ELSE [ClientIdle EXCEPT !.pc = "cread", !.sid = sid]
    /\ UNCHANGED <<now, tz, store, redis, h, nmsg, r, lim, notifs, appended, n, files, acks, pm, chat_history_store, last_activity_times>>

\* close_session called by the client: the select.
ClientCloseRead ==
    /\ c.pc = "cread"
    /\ c' = IF CloseFound(c.sid)
            THEN [c EXCEPT !.msgs = store[c.sid].msgs, !.pc = "cwrite"]
            ELSE ClientIdle
    /\ UNCHANGED <<now, tz, store, redis, h, nmsg, r, ncalls, lim, notifs, appended, n, files, acks, pm, chat_history_store, last_activity_times>>

\* close_session called by the client: the update, then the thread.
ClientCloseWrite ==
    /\ c.pc = "cwrite"
    /\ store' = MarkClosed(c.sid)
    /\ notifs' = Notify(c.sid, c.msgs, c.via)
    /\ c' = ClientIdle
    /\ UNCHANGED <<now, tz, redis, h, nmsg, r, ncalls, lim, appended, n, files, acks, pm, chat_history_store, last_activity_times>>

\* ------------------------------------ the sessions kept in memory (chat_logic.py)
\* SupabaseMessageHistory(user_id, phone_number, max_messages): messages is
\* what _load_messages_from_db found, at most max_messages entries of the
\* table messages; session_messages is empty. added is history: the messages
\* handed to add_message since the creation or the last clear.
SupabaseMessageHistory(max, loaded) ==
    [max_messages |-> max, messages |-> loaded, session_messages |-> <<>>, added |-> <<>>]

\* A message read from the table messages carries no timestamp.
DbMessage(role) == [id |-> 0, role |-> role, ts |-> [w |-> 0, aware |-> FALSE]]

\* self.messages[:max_messages] in place of self.messages[-max_messages:].
Window_first(msgs, max) == IF Len(msgs) > max THEN SubSeq(msgs, 1, max) ELSE msgs

\* self.messages[-self.max_messages:] when the list is over max_messages.
Window(msgs, max) ==
    IF Len(msgs) > max THEN SubSeq(msgs, Len(msgs) - max + 1, Len(msgs)) ELSE msgs

\* SupabaseMessageHistory.add_message: the message, stamped with the UTC
\* clock, goes to the end of messages, which is cut to its last max_messages
\* entries, and to the end of session_messages.
add_message(sid, role) ==
    LET hist == chat_history_store[sid]
        k == Len(hist.session_messages)
        m == [id |-> MaxMsgs + k + 1, role |-> role, ts |-> UtcNow] IN
    /\ k < MaxMemMsgs
    /\ chat_history_store' =
          [chat_history_store EXCEPT
              ![sid] = [hist EXCEPT
                          !.messages = Window(Append(hist.messages, m), hist.max_messages),
                          !.session_messages = Append(hist.session_messages, m),
                          !.added = Append(hist.added, m)]]
    /\ UNCHANGED <<now, tz, store, redis, h, nmsg, r, c, ncalls, lim, notifs, appended, n, files, acks, pm, last_activity_times>>

\* SupabaseMessageHistory.clear.
clear(sid) ==
    /\ chat_history_store' =
          [chat_history_store EXCEPT
              ![sid] = [@ EXCEPT !.messages = <<>>, !.session_messages = <<>>,
                                 !.added = <<>>]]
    /\ UNCHANGED <<now, tz, store, redis, h, nmsg, r, c, ncalls, lim, notifs, appended, n, files, acks, pm, last_activity_times>>

\* is_session_inactive: False for a session without an entry in
\* last_activity_times, else whether the entry is over the timeout.
is_session_inactive(sid) ==
    /\ sid \in DOMAIN last_activity_times
    /\ now - last_activity_times[sid].w > SESSION_TIMEOUT

\* update_session_activity(session_id).
SetActivity(sid) ==
    [s \in DOMAIN last_activity_times \cup {sid} |->
        IF s = sid THEN UtcNow ELSE last_activity_times[s]]

update_session_activity(sid) ==
    /\ c.pc = "idle"
    /\ last_activity_times' = SetActivity(sid)
    /\ UNCHANGED <<now, tz, store, redis, h, nmsg, r, c, ncalls, lim, notifs, appended, n, files, acks, pm, chat_history_store>>

\* The user ids of the callers of get_active_session_id, with their
\* characters; a session id is f"{user_id}_{int(time.time())}".
UserIds == {"u1", "u12"}
IdText(u) ==
    CASE u = "u1" -> <<"u", "1">>
      [] u = "u12" -> <<"u", "1", "2">>
      [] OTHER -> <<"n", "o", "n", "e">>

RECURSIVE Decimal(_)
Decimal(k) ==
    LET d == <<"0", "1", "2", "3", "4", "5", "6", "7", "8", "9">>[(k % 10) + 1] IN
    IF k < 10 THEN <<d>> ELSE Append(Decimal(k \div 10), d)

SidText(sid) == IdText(sid.u) \o <<"_">> \o Decimal(sid.t)

\* str.startswith.
startswith(text, prefix) ==
    Len(prefix) <= Len(text) /\ SubSeq(text, 1, Len(prefix)) = prefix

\* The test of the loop over chat_history_store (line 529).
MemoryMatch(sid, uid) == startswith(SidText(sid), IdText(uid))

\* order("last_activity", desc=True).limit(1).
LatestActivity(S) == {s \in S : \A s2 \in S : store[s2].la.w <= store[s].la.w}

\* What a finished call of get_active_session_id leaves with its caller: the
\* argument, the id returned (NoSid for None), the last activity the call
\* went by and the time it read the clock for its test.
Returns(uid, out, la, at) ==
    [ClientIdle EXCEPT !.uid = uid, !.out = out, !.at = at,
                       !.sd = [IdleSession EXCEPT !.la = la], !.via = "lookup"]

\* get_active_session_id(user_id, phone_number) up to its select: a session
\* of chat_history_store that passes the test is returned; else the select
\* of the user's active row with the latest last_activity is made.
get_active_session_id(uid, p) ==
    LET hits == {s \in DOMAIN chat_history_store :
                    MemoryMatch(s, uid) /\ ~is_session_inactive(s)}
        rows == {s \in Ids : store[s].status = "active" /\ get_user_id(store[s].phone) = uid} IN
    /\ c.pc = "idle"
    /\ IF hits # {}
       THEN \E s \in hits :
               c' = Returns(uid, s, IF s \in DOMAIN last_activity_times
                                    THEN last_activity_times[s] ELSE UtcNow, now)
       ELSE IF rows = {}
            THEN c' = Returns(uid, NoSid, IdleSession.la, now)
            ELSE \E s \in LatestActivity(rows) :
                    c' = [ClientIdle EXCEPT !.pc = "grow", !.uid = uid, !.p = p, !.sid = s,
                                            !.sd = [IdleSession EXCEPT !.la = store[s].la]]
    /\ UNCHANGED <<now, tz, store, redis, h, nmsg, r, ncalls, lim, notifs, appended, n, files, acks, pm, chat_history_store, last_activity_times>>

\* get_active_session_id, the row of the select: last_activity is read as
\* UTC; within the timeout the activity of the session is set and, for a
\* session not in chat_history_store and a phone_number, a
\* SupabaseMessageHistory is built, which loads its messages.
ActiveRow ==
    /\ c.pc = "grow"
    /\ IF now - StripTz(c.sd.la) <= SESSION_TIMEOUT
       THEN /\ last_activity_times' = SetActivity(c.sid)
            /\ c' = IF c.p # None /\ c.sid \notin DOMAIN chat_history_store
                    THEN [c EXCEPT !.pc = "gload", !.at = now]
                    ELSE Returns(c.uid, c.sid, c.sd.la, now)
       ELSE /\ c' = Returns(c.uid, NoSid, c.sd.la, now)
            /\ UNCHANGED last_activity_times
    /\ UNCHANGED <<now, tz, store, redis, h, nmsg, r, ncalls, lim, notifs, appended, n, files, acks, pm, chat_history_store>>

\* get_active_session_id: the history is built and stored, the id returned.
StoreHistory ==
    /\ c.pc = "gload"
    /\ chat_history_store' =
          [s \in DOMAIN chat_history_store \cup {c.sid} |->
              IF s = c.sid THEN SupabaseMessageHistory(max_messages, <<>>)
              ELSE chat_history_store[s]]
    /\ c' = Returns(c.uid, c.sid, c.sd.la, c.at)
    /\ UNCHANGED <<now, tz, store, redis, h, nmsg, r, ncalls, lim, notifs, appended, n, files, acks, pm, last_activity_times>>

\* get_chat_history(session_id) of a session that is in chat_history_store:
\* update_session_activity; of another session: the select of the user's
\* phone number, then the SupabaseMessageHistory loads its messages.
get_chat_history(sid) ==
    /\ c.pc = "idle"
    /\ IF sid \in DOMAIN chat_history_store
       THEN /\ last_activity_times' = SetActivity(sid)
            /\ c' = [ClientIdle EXCEPT !.via = "history"]
       ELSE /\ c' = [ClientIdle EXCEPT !.pc = "hload", !.sid = sid, !.via = "history"]
            /\ UNCHANGED last_activity_times
    /\ UNCHANGED <<now, tz, store, redis, h, nmsg, r, ncalls, lim, notifs, appended, n, files, acks, pm, chat_history_store>>

\* The update_session_activity left out of get_chat_history.
HistoryLoaded_noupdate ==
    /\ c.pc = "hload"
    /\ chat_history_store' =
          [s \in DOMAIN chat_history_store \cup {c.sid} |->
              IF s = c.sid THEN SupabaseMessageHistory(max_messages, <<>>)
              ELSE chat_history_store[s]]
    /\ c' = [ClientIdle EXCEPT !.via = "history"]
    /\ UNCHANGED <<now, tz, store, redis, h, nmsg, r, ncalls, lim, notifs, appended, n, files, acks, pm, last_activity_times>>

\* get_chat_history: the history is stored, update_session_activity, return.
HistoryLoaded ==
    /\ c.pc = "hload"
    /\ chat_history_store' =
          [s \in DOMAIN chat_history_store \cup {c.sid} |->
              IF s = c.sid THEN SupabaseMessageHistory(max_messages, <<>>)
              ELSE chat_history_store[s]]
    /\ last_activity_times' = SetActivity(c.sid)
    /\ c' = [ClientIdle EXCEPT !.via = "history"]
    /\ UNCHANGED <<now, tz, store, redis, h, nmsg, r, ncalls, lim, notifs, appended, n, files, acks, pm>>

\* The two dictionaries without the session (lines 517-520).
Forget(d, sid) == [s \in DOMAIN d \ {sid} |-> d[s]]

\* close_session on a session held in memory: the update of the row with
\* messages_json, last_activity and status closed, then the thread, then the
\* two dictionaries lose the session.
MemoryClose ==
    /\ c.pc = "mclose"
    /\ store' = IF c.sid \in Ids
                THEN [store EXCEPT ![c.sid].status = "closed", ![c.sid].la = c.sd.la,
                                   ![c.sid].msgs = c.msgs, ![c.sid].null = FALSE]
                ELSE store
    /\ notifs' = Notify(c.sid, c.msgs, c.via)
    /\ chat_history_store' = Forget(chat_history_store, c.sid)
    /\ last_activity_times' = Forget(last_activity_times, c.sid)
    /\ c' = ClientIdle
    /\ UNCHANGED <<now, tz, redis, h, nmsg, r, ncalls, lim, appended, n, files, acks, pm>>

\* The same when the update raises: the except clause (lines 512-514) logs
\* it, no thread is started, and the two dictionaries lose the session.
MemoryCloseFail ==
    /\ c.pc = "mclose"
    /\ StoreFlaky
    /\ chat_history_store' = Forget(chat_history_store, c.sid)
    /\ last_activity_times' = Forget(last_activity_times, c.sid)
    /\ c' = ClientIdle
    /\ UNCHANGED <<now, tz, store, redis, h, nmsg, r, ncalls, lim, notifs, appended, n, files, acks, pm>>

\* ------------------------------------ the delivery to the profile updater
\* One run delivers profile_update_data = [sid, msgs]. kind "thread" is
\* send_profile_update_async of chat_logic.close_session, kind "inline" is the
\* single requests.post of chat.close_session. caller tells where the
\* close_session that started the run is: Thread.start() has returned to it,
\* while the inline post is a statement of close_session itself.
NotifierFrame(kind, payload) ==
    [pc |-> "post", kind |-> kind, payload |-> payload, attempt |-> 1,
     delay |-> retry_delay0, posts |-> 0, slept |-> <<>>, delivered |-> FALSE,
     backups |-> 0, caller |-> IF kind = "thread" THEN "returned" ELSE "waiting"]
NotifierIdle == [NotifierFrame("thread", [sid |-> NoSid, msgs |-> <<>>]) EXCEPT !.pc = "idle"]

\* What one requests.post can come to: status 200, another status,
\* requests.exceptions.Timeout, any other exception.
Outcomes == {"200", "status", "timeout", "error"}

\* The loop as range(1, max_retries): it gives up one attempt early.
Post_short(outcome) ==
    /\ n.pc = "post" /\ n.kind = "thread"
    /\ n' = [n EXCEPT !.posts = n.posts + 1,
                      !.delivered = (outcome = "200"),
                      !.pc = IF outcome = "200" THEN "done"
                             ELSE IF n.attempt < max_retries - 1 THEN "sleep"
                             ELSE "backup"]
    /\ UNCHANGED <<now, tz, store, redis, h, nmsg, r, c, ncalls, lim, notifs, appended, files, acks, pm, chat_history_store, last_activity_times>>

\* The loop without the return of line 263: a status 200 is treated as any
\* other response.
Post_noreturn(outcome) ==
    /\ n.pc = "post" /\ n.kind = "thread"
    /\ n' = [n EXCEPT !.posts = n.posts + 1,
                      !.delivered = n.delivered \/ outcome = "200",
                      !.pc = IF n.attempt < max_retries THEN "sleep" ELSE "backup"]
    /\ UNCHANGED <<now, tz, store, redis, h, nmsg, r, c, ncalls, lim, notifs, appended, files, acks, pm, chat_history_store, last_activity_times>>

\* send_profile_update_async, one pass of the for loop up to the sleep.
Post(outcome) ==
    /\ n.pc = "post" /\ n.kind = "thread"
    /\ n' = [n EXCEPT !.posts = n.posts + 1,
                      !.delivered = (outcome = "200"),
                      !.pc = IF outcome = "200" THEN "done"
                             ELSE IF n.attempt < max_retries THEN "sleep"
                             ELSE "backup"]
    /\ UNCHANGED <<now, tz, store, redis, h, nmsg, r, c, ncalls, lim, notifs, appended, files, acks, pm, chat_history_store, last_activity_times>>

\* The sleep without retry_delay *= 2: every wait has the first length.
Backoff_fixed ==
    /\ n.pc = "sleep"
    /\ n' = [n EXCEPT !.slept = Append(n.slept, n.delay),
                      !.attempt = n.attempt + 1, !.pc = "post"]
    /\ UNCHANGED <<now, tz, store, redis, h, nmsg, r, c, ncalls, lim, notifs, appended, files, acks, pm, chat_history_store, last_activity_times>>

\* time.sleep(retry_delay); retry_delay *= 2; the loop goes to the next attempt.
Backoff ==
    /\ n.pc = "sleep"
    /\ n' = [n EXCEPT !.slept = Append(n.slept, n.delay), !.delay = n.delay * 2,
                      !.attempt = n.attempt + 1, !.pc = "post"]
    /\ UNCHANGED <<now, tz, store, redis, h, nmsg, r, c, ncalls, lim, notifs, appended, files, acks, pm, chat_history_store, last_activity_times>>

\* After the loop: the file failed_updates/{session_id}_{time}.json is written;
\* when makedirs or open raises, the except clause logs it.
Backup(written) ==
    /\ n.pc = "backup"
    /\ n' = [n EXCEPT !.backups = n.backups + 1, !.pc = "done"]
    /\ files' = IF written
                THEN files \cup {[name |-> <<n.payload.sid, now>>, data |-> n.payload]}
                ELSE files
    /\ UNCHANGED <<now, tz, store, redis, h, nmsg, r, c, ncalls, lim, notifs, appended, acks, pm, chat_history_store, last_activity_times>>

\* chat.close_session: one requests.post when the transcript is not empty; a
\* status other than 200 or an exception is logged. close_session
\* goes on after the post and returns.
InlinePost(outcome) ==
    /\ n.pc = "post" /\ n.kind = "inline"
    /\ n' = IF n.payload.msgs = <<>>
            THEN [n EXCEPT !.pc = "done", !.caller = "returned"]
            ELSE [n EXCEPT !.posts = n.posts + 1, !.delivered = (outcome = "200"),
                           !.pc = "done", !.caller = "returned"]
    /\ UNCHANGED <<now, tz, store, redis, h, nmsg, r, c, ncalls, lim, notifs, appended, files, acks, pm, chat_history_store, last_activity_times>>

\* ------------------------------------------- the scores of the classifiers
\* The reply text of the classifier, a string over these characters.
Digits == {"0", "1", "7", "8", "9"}
Chars == Digits \cup {".", "-", "n", "a"}
Texts == UNION {[1..k -> Chars] : k \in 0..MaxTextLen}

DigitVal(ch) == CASE ch = "0" -> 0 [] ch = "1" -> 1 [] ch = "7" -> 7
                  [] ch = "8" -> 8 [] ch = "9" -> 9

RECURSIVE IntVal(_)
IntVal(ds) == IF ds = <<>> THEN 0
              ELSE IntVal(SubSeq(ds, 1, Len(ds) - 1)) * 10 + DigitVal(ds[Len(ds)])

RECURSIVE Pow10(_)
Pow10(k) == IF k = 0 THEN 1 ELSE 10 * Pow10(k - 1)

\* A float: nan, or a number held in thousandths (exact for the fractions of
\* up to three digits the texts can spell).
Num(v) == [nan |-> FALSE, v |-> v]
NaN == [nan |-> TRUE, v |-> 0]

\* The last index of the run of digits of t that starts at i.
DigitRun(t, i) ==
    CHOOSE j \in i..Len(t) :
        /\ \A k \in i..j : t[k] \in Digits
        /\ j = Len(t) \/ t[j + 1] \notin Digits

\* re.search(r'(\d+(\.\d+)?)', t): the leftmost digit starts the match, \d+
\* takes the whole run, and ".digits" is taken when it follows. The result is
\* the matched integer digits and fraction digits; found is FALSE for None.
Search(t) ==
    LET starts == {i \in 1..Len(t) : t[i] \in Digits} IN
    IF starts = {} THEN [found |-> FALSE, int |-> <<>>, frac |-> <<>>]
    ELSE LET i == CHOOSE x \in starts : \A y \in starts : x <= y
             j == DigitRun(t, i)
             hasFrac == j + 2 <= Len(t) /\ t[j + 1] = "." /\ t[j + 2] \in Digits
         IN [found |-> TRUE, int |-> SubSeq(t, i, j),
             frac |-> IF hasFrac THEN SubSeq(t, j + 2, DigitRun(t, j + 2)) ELSE <<>>]

\* float(match.group(1)) of the matched digits.
FloatOfMatch(m) == Num(IntVal(m.int) * 1000 + (IntVal(m.frac) * 1000) \div Pow10(Len(m.frac)))

\* float(raw_response) in the branch without a match, so on a text without a
\* digit: of these texts float accepts "nan", also signed; the others raise
\* ValueError.
FloatAccepts(t) == t \in {<<"n", "a", "n">>, <<"-", "n", "a", "n">>}

\* a < b of two floats: False when one of them is nan.
Less(a, b) == ~a.nan /\ ~b.nan /\ a.v < b.v
\* min(a, b) and max(a, b) of Python: the first argument unless the second is
\* smaller (greater).
PyMin(a, b) == IF Less(b, a) THEN b ELSE a
PyMax(a, b) == IF Less(a, b) THEN b ELSE a
Clamp(x) == PyMax(Num(0), PyMin(Num(1000), x))

\* detect_call_intention and detect_intro_request_intention, from the reply
\* text of the classifier on: the score, in thousandths.
IntentionScore(t) ==
    LET m == Search(t) IN
    IF m.found THEN Clamp(FloatOfMatch(m)).v
    ELSE IF FloatAccepts(t) THEN Clamp(NaN).v
    ELSE 0

\* ------------------------------------------- process_message, the router
\* One run of process_message. mod names the module: "chat_logic" is the one
\* main.py imports, "chat" is chat.py. known: the users table has the sender;
\* tmpl: what detect_template_response finds; conf: handle_intro_request
\* returns a confirmation. ran lists the handlers executed, msgs the roles of
\* the entries of session_data["messages"], text is the classifier reply
\* being scored. rc is the redis_client argument of chat.py: "none" when it
\* is not passed, else "up" or "down" for a client whose calls return or
\* raise.
RouterFrame(mod, known, tmpl, conf) ==
    [pc |-> "start", mod |-> mod, known |-> known, tmpl |-> tmpl, conf |-> conf,
     text |-> <<>>, call |-> 0, intro |-> 0, ran |-> <<>>, msgs |-> <<>>,
     success |-> FALSE, status |-> "active", rc |-> "none"]

\* chat.py: redis_client.setex(session_key, 60, ...) of a handler raises.
SetexRaises == pm.mod = "chat" /\ pm.rc = "down"

\* No run of process_message through the router is in progress.
RouterIdle == [RouterFrame("chat_logic", TRUE, "none", FALSE) EXCEPT !.pc = "idle"]

\* process_message up to the classifiers: the user is resolved, or success
\* False is returned.
RouterStart ==
    /\ pm.pc = "start"
    /\ pm' = IF pm.known THEN [pm EXCEPT !.pc = "detect_call"]
             ELSE [pm EXCEPT !.pc = "return", !.success = FALSE]
    /\ UNCHANGED <<now, tz, store, redis, h, nmsg, r, c, ncalls, lim, notifs, appended, n, files, acks, chat_history_store, last_activity_times>>

\* detect_call_intention: client.chat.completions.create returns the reply.
CallReply(text) ==
    /\ pm.pc = "detect_call"
    /\ pm' = [pm EXCEPT !.text = text, !.pc = "score_call"]
    /\ UNCHANGED <<now, tz, store, redis, h, nmsg, r, c, ncalls, lim, notifs, appended, n, files, acks, chat_history_store, last_activity_times>>

\* call_intention_score = detect_call_intention(message): the score is
\* extracted from the reply.
DetectCall ==
    /\ pm.pc = "score_call"
    /\ pm' = [pm EXCEPT !.text = <<>>, !.call = IntentionScore(pm.text),
                        !.pc = IF pm.mod = "chat" THEN "detect_intro" ELSE "call"]
    /\ UNCHANGED <<now, tz, store, redis, h, nmsg, r, c, ncalls, lim, notifs, appended, n, files, acks, chat_history_store, last_activity_times>>

\* chat.py, detect_intro_request_intention: the reply of the classifier.
IntroReply(text) ==
    /\ pm.pc = "detect_intro"
    /\ pm' = [pm EXCEPT !.text = text, !.pc = "score_intro"]
    /\ UNCHANGED <<now, tz, store, redis, h, nmsg, r, c, ncalls, lim, notifs, appended, n, files, acks, chat_history_store, last_activity_times>>

\* chat.py: intro_intention_score = detect_intro_request_intention(message).
DetectIntro ==
    /\ pm.pc = "score_intro"
    /\ pm' = [pm EXCEPT !.text = <<>>, !.intro = IntentionScore(pm.text), !.pc = "intro"]
    /\ UNCHANGED <<now, tz, store, redis, h, nmsg, r, c, ncalls, lim, notifs, appended, n, files, acks, chat_history_store, last_activity_times>>

\* chat.py: if intro_intention_score > 0.7, the introduction handler: the
\* user message is appended, the confirmation when there is one; return.
IntroBranch ==
    /\ pm.pc = "intro"
    /\ ~(pm.intro > INTRO_THRESHOLD /\ SetexRaises)
    /\ pm' = IF pm.intro > INTRO_THRESHOLD
             THEN [pm EXCEPT !.ran = Append(@, "intro"),
                             !.msgs = @ \o (IF pm.conf THEN <<"user", "assistant">>
                                            ELSE <<"user">>),
                             !.success = TRUE, !.pc = "return"]
             ELSE [pm EXCEPT !.pc = "call"]
    /\ UNCHANGED <<now, tz, store, redis, h, nmsg, r, c, ncalls, lim, notifs, appended, n, files, acks, chat_history_store, last_activity_times>>

\* The call handler without its return: the run goes on to the next test.
CallBranch_fallthrough ==
    /\ pm.pc = "call"
    /\ pm' = IF pm.call > CALL_THRESHOLD
             THEN [pm EXCEPT !.ran = Append(@, "call"),
                             !.msgs = @ \o <<"user", "assistant">>,
                             !.success = TRUE,
                             !.pc = IF pm.mod = "chat" THEN "template" ELSE "plain"]
             ELSE [pm EXCEPT !.pc = IF pm.mod = "chat" THEN "template" ELSE "plain"]
    /\ UNCHANGED <<now, tz, store, redis, h, nmsg, r, c, ncalls, lim, notifs, appended, n, files, acks, chat_history_store, last_activity_times>>

\* if call_intention_score > 0.8, the call handler: the user message and the
\* confirmation are appended, the call is started; return.
CallBranch ==
    /\ pm.pc = "call"
    /\ ~(pm.call > CALL_THRESHOLD /\ SetexRaises)
    /\ pm' = IF pm.call > CALL_THRESHOLD
             THEN [pm EXCEPT !.ran = Append(@, "call"),
                             !.msgs = @ \o <<"user", "assistant">>,
                             !.success = TRUE, !.pc = "return"]
             ELSE [pm EXCEPT !.pc = IF pm.mod = "chat" THEN "template" ELSE "plain"]
    /\ UNCHANGED <<now, tz, store, redis, h, nmsg, r, c, ncalls, lim, notifs, appended, n, files, acks, chat_history_store, last_activity_times>>

\* chat.py: detect_template_response; on a positive reply to a template the
\* introduction message is sent and appended as an assistant entry; return.
TemplateBranch ==
    /\ pm.pc = "template"
    /\ pm' = IF pm.tmpl = "positive"
             THEN [pm EXCEPT !.ran = Append(@, "template"),
                             !.msgs = @ \o <<"assistant">>,
                             !.success = TRUE, !.pc = "return"]
             ELSE [pm EXCEPT !.pc = "plain"]
    /\ UNCHANGED <<now, tz, store, redis, h, nmsg, r, c, ncalls, lim, notifs, appended, n, files, acks, chat_history_store, last_activity_times>>

\* The plain chat: process_message_with_context, the user message and the
\* response are appended; return.
PlainBranch ==
    /\ pm.pc = "plain"
    /\ ~SetexRaises
    /\ pm' = [pm EXCEPT !.ran = Append(@, "plain"),
                        !.msgs = @ \o <<"user", "assistant">>,
                        !.success = TRUE, !.pc = "return"]
    /\ UNCHANGED <<now, tz, store, redis, h, nmsg, r, c, ncalls, lim, notifs, appended, n, files, acks, chat_history_store, last_activity_times>>

\* chat.py, a handler whose redis_client.setex raises after the messages
\* were appended to session_data["messages"]: the except clause of
\* process_message returns success False with the same session_data.
IntroBranchDown ==
    /\ pm.pc = "intro"
    /\ pm.intro > INTRO_THRESHOLD /\ SetexRaises
    /\ pm' = [pm EXCEPT !.ran = Append(@, "intro"),
                        !.msgs = @ \o (IF pm.conf THEN <<"user", "assistant">>
                                       ELSE <<"user">>),
                        !.success = FALSE, !.pc = "return"]
    /\ UNCHANGED <<now, tz, store, redis, h, nmsg, r, c, ncalls, lim, notifs, appended, n, files, acks, chat_history_store, last_activity_times>>

CallBranchDown ==
    /\ pm.pc = "call"
    /\ pm.call > CALL_THRESHOLD /\ SetexRaises
    /\ pm' = [pm EXCEPT !.ran = Append(@, "call"),
                        !.msgs = @ \o <<"user", "assistant">>,
                        !.success = FALSE, !.pc = "return"]
    /\ UNCHANGED <<now, tz, store, redis, h, nmsg, r, c, ncalls, lim, notifs, appended, n, files, acks, chat_history_store, last_activity_times>>

PlainBranchDown ==
    /\ pm.pc = "plain"
    /\ SetexRaises
    /\ pm' = [pm EXCEPT !.ran = Append(@, "plain"),
                        !.msgs = @ \o <<"user", "assistant">>,
                        !.success = FALSE, !.pc = "return"]
    /\ UNCHANGED <<now, tz, store, redis, h, nmsg, r, c, ncalls, lim, notifs, appended, n, files, acks, chat_history_store, last_activity_times>>

\* The process has started and no message has arrived yet.
Init ==
    /\ now = 0
    /\ tz \in TzOffsets
    /\ store = <<>>
    /\ redis = [p \in Phones |-> NoKey]
    /\ h = [hd \in Handlers |-> IdleFrame]
    /\ nmsg = 0
    /\ r = SleepFrame(0)
    /\ c = ClientIdle
    /\ ncalls = 0
    /\ lim = [msgs |-> MaxMsgs, closes |-> 0, senders |-> {"p1"}, par |-> 2, cache |-> "up", store |-> "up"]
    /\ notifs = <<>>
    /\ appended = {}
    /\ n = NotifierIdle
    /\ files = {}
    /\ acks = {}
    /\ pm = RouterIdle
    /\ chat_history_store = <<>>
    /\ last_activity_times = <<>>

Webhook ==
    \/ \E hd \in Handlers, p \in Phones : Receive(hd, p)
    \/ \E hd \in Handlers : Exists(hd)
    \/ \E hd \in Handlers : Get(hd)
    \/ \E hd \in Handlers : Lookup(hd)
    \/ \E hd \in Handlers : InsertSession(hd)
    \/ \E hd \in Handlers : SetexSession(hd)
    \/ \E hd \in Handlers : ProcessInsert(hd)
    \/ \E hd \in Handlers : Respond(hd)
    \/ \E hd \in Handlers : WUpdate(hd)

Cleaner ==
    \/ SweepStart
    \/ ScanKey
    \/ ReaperCloseRead
    \/ ReaperCloseWrite
    \/ DelKey
    \/ SelectActive
    \/ ScanRow
    \/ SweepEnd

Client ==
    \/ \E p \in lim.senders : \E sd \in ClientSessions(p) : close_supabase_session(p, sd)
    \/ ManualClose
    \/ \E sid \in Ids : close_session(sid)
    \/ ClientCloseRead
    \/ ClientCloseWrite

Next == Webhook \/ Cleaner \/ Tick

Spec == Init /\ [][Next]_vars

\* The cleaner is a thread in a while True loop: its next step is taken.
SpecLive == Init /\ [][Next]_vars /\ WF_vars(Cleaner)

\* The same with a sender the users table does not know.
InitUnknown ==
    /\ now = 0
    /\ tz \in TzOffsets
    /\ store = <<>>
    /\ redis = [p \in Phones |-> NoKey]
    /\ h = [hd \in Handlers |-> IdleFrame]
    /\ nmsg = 0
    /\ r = SleepFrame(0)
    /\ c = ClientIdle
    /\ ncalls = 0
    /\ lim = [msgs |-> MaxMsgs, closes |-> 0, senders |-> Phones, par |-> 2, cache |-> "up", store |-> "up"]
    /\ notifs = <<>>
    /\ appended = {}
    /\ n = NotifierIdle
    /\ files = {}
    /\ acks = {}
    /\ pm = RouterIdle
    /\ chat_history_store = <<>>
    /\ last_activity_times = <<>>

NextUnknown ==
    \/ Webhook
    \/ \E hd \in Handlers : ProcessFail(hd)
    \/ Cleaner
    \/ Tick

SpecUnknown == InitUnknown /\ [][NextUnknown]_vars

\* The webhook alone, with Redis unreachable or Supabase calls that may raise.
InitFault ==
    /\ now = 0
    /\ tz \in TzOffsets
    /\ store = <<>>
    /\ redis = [p \in Phones |-> NoKey]
    /\ h = [hd \in Handlers |-> IdleFrame]
    /\ nmsg = 0
    /\ r = SleepFrame(0)
    /\ c = ClientIdle
    /\ ncalls = 0
    /\ \E ca \in {"up", "down"}, st \in {"up", "flaky"} :
          lim = [msgs |-> MaxMsgs, closes |-> 0, senders |-> {"p1"}, par |-> 2, cache |-> ca, store |-> st]
    /\ notifs = <<>>
    /\ appended = {}
    /\ n = NotifierIdle
    /\ files = {}
    /\ acks = {}
    /\ pm = RouterIdle
    /\ chat_history_store = <<>>
    /\ last_activity_times = <<>>

WebhookFault ==
    \/ \E hd \in Handlers : ExistsDown(hd)
    \/ \E hd \in Handlers : LookupFail(hd)
    \/ \E hd \in Handlers : InsertSessionFail(hd)
    \/ \E hd \in Handlers : ProcessInsertFail(hd)
    \/ \E hd \in Handlers : ProcessError(hd)
    \/ \E hd \in Handlers : RespondDown(hd)
    \/ \E hd \in Handlers : WUpdateFail(hd)

NextFault == Webhook \/ WebhookFault \/ Tick

SpecFault == InitFault /\ [][NextFault]_vars

\* One run of process_message, for each module and each answer of the
\* classifiers.
InitRoute ==
    /\ now = 0
    /\ tz \in TzOffsets
    /\ store = <<>>
    /\ redis = [p \in Phones |-> NoKey]
    /\ h = [hd \in Handlers |-> IdleFrame]
    /\ nmsg = 0
    /\ r = SleepFrame(0)
    /\ c = ClientIdle
    /\ ncalls = 0
    /\ lim = [msgs |-> 0, closes |-> 0, senders |-> {}, par |-> 2, cache |-> "up", store |-> "up"]
    /\ notifs = <<>>
    /\ appended = {}
    /\ n = NotifierIdle
    /\ files = {}
    /\ acks = {}
    /\ \E mod \in {"chat", "chat_logic"}, known \in BOOLEAN,
          tmpl \in {"none", "positive", "negative"}, conf \in BOOLEAN :
          pm = RouterFrame(mod, known, tmpl, conf)
    /\ chat_history_store = <<>>
    /\ last_activity_times = <<>>

NextRoute ==
    \/ RouterStart
    \/ \E t \in Texts : CallReply(t)
    \/ DetectCall
    \/ \E t \in Texts : IntroReply(t)
    \/ DetectIntro
    \/ IntroBranch
    \/ CallBranch
    \/ TemplateBranch
    \/ PlainBranch

SpecRoute == InitRoute /\ [][NextRoute]_vars

\* The same run with the redis_client argument of chat.py: not passed, or a
\* client whose calls return or raise.
InitRouteDown ==
    /\ now = 0
    /\ tz \in TzOffsets
    /\ store = <<>>
    /\ redis = [p \in Phones |-> NoKey]
    /\ h = [hd \in Handlers |-> IdleFrame]
    /\ nmsg = 0
    /\ r = SleepFrame(0)
    /\ c = ClientIdle
    /\ ncalls = 0
    /\ lim = [msgs |-> 0, closes |-> 0, senders |-> {}, par |-> 2, cache |-> "up", store |-> "up"]
    /\ notifs = <<>>
    /\ appended = {}
    /\ n = NotifierIdle
    /\ files = {}
    /\ acks = {}
    /\ \E mod \in {"chat", "chat_logic"}, known \in BOOLEAN,
          tmpl \in {"none", "positive", "negative"}, conf \in BOOLEAN,
          rc \in {"none", "up", "down"} :
          /\ mod = "chat_logic" => rc = "none"
          /\ pm = [RouterFrame(mod, known, tmpl, conf) EXCEPT !.rc = rc]
    /\ chat_history_store = <<>>
    /\ last_activity_times = <<>>

NextRouteDown ==
    \/ NextRoute
    \/ IntroBranchDown
    \/ CallBranchDown
    \/ PlainBranchDown

SpecRouteDown == InitRouteDown /\ [][NextRouteDown]_vars

\* The same with a client that calls the close entry points.
\* It starts in the state the first exchange of p1 leaves (a state of Spec):
\* the session is active in Supabase and in Redis, with one exchange.
FirstSid == SessionId("u1", 0)
FirstSession(t) ==
    [sid |-> FirstSid, uid |-> "u1",
     msgs |-> << [id |-> 1, role |-> "user", ts |-> [w |-> 0, aware |-> TRUE]],
                 [id |-> 1, role |-> "assistant", ts |-> [w |-> 0, aware |-> TRUE]] >>,
     la |-> [w |-> t, aware |-> FALSE]]

AfterFirstExchange ==
    /\ now = 0
    /\ store = (FirstSid :> [phone |-> "p1", status |-> "active",
                             start |-> [w |-> tz, aware |-> FALSE],
                             la |-> [w |-> tz, aware |-> FALSE],
                             msgs |-> FirstSession(tz).msgs, null |-> FALSE])
    /\ redis = [p \in Phones |-> IF p = "p1" THEN [sd |-> FirstSession(tz), exp |-> REDIS_TTL]
                                ELSE NoKey]
    /\ h = [hd \in Handlers |-> IdleFrame]
    /\ nmsg = 1
    /\ r = SleepFrame(0)
    /\ c = ClientIdle
    /\ ncalls = 0
    /\ notifs = <<>>
    /\ appended = {<<FirstSid, 1>>}
    /\ n = NotifierIdle
    /\ files = {}
    /\ acks = {}
    /\ pm = RouterIdle
    /\ chat_history_store = <<>>
    /\ last_activity_times = <<>>

InitClose ==
    /\ tz \in TzOffsets
    /\ lim = [msgs |-> 1 + MaxCloseMsgs, closes |-> MaxCloseCalls, senders |-> {"p1"}, par |-> 2, cache |-> "up", store |-> "up"]
    /\ AfterFirstExchange

NextClose == Webhook \/ Cleaner \/ Tick \/ Client

SpecClose == InitClose /\ [][NextClose]_vars

\* The close of a session that is also held in memory: the first exchange is
\* in Supabase, and a caller of chat_logic.py looks the session up, adds
\* messages to its history and closes it.
InitLoad ==
    /\ tz \in TzOffsets
    /\ \E st \in {"up", "flaky"} :
          lim = [msgs |-> 1, closes |-> MaxLoadCloses, senders |-> {"p1"}, par |-> 2,
                 cache |-> "up", store |-> st]
    /\ AfterFirstExchange

\* The session ids the callers pass: the session of u1 and one of u12.
MemSids == {FirstSid, SessionId("u12", 0)}

\* An exchange adds the message of the user, then the reply.
TurnOf(sid) ==
    IF Len(chat_history_store[sid].session_messages) % 2 = 0 THEN "user" ELSE "assistant"

NextLoad ==
    \/ \E uid \in UserIds, p \in {None, "p1"} : get_active_session_id(uid, p)
    \/ ActiveRow
    \/ StoreHistory
    \/ \E sid \in MemSids : get_chat_history(sid)
    \/ HistoryLoaded
    \/ \E sid \in Ids : update_session_activity(sid)
    \/ \E sid \in DOMAIN chat_history_store \cap Ids : add_message(sid, TurnOf(sid))
    \/ \E sid \in Ids \cup DOMAIN chat_history_store : close_session(sid)
    \/ ClientCloseRead
    \/ ClientCloseWrite
    \/ MemoryClose
    \/ MemoryCloseFail
    \/ Tick

SpecLoad == InitLoad /\ [][NextLoad]_vars

\* One SupabaseMessageHistory, built with max_messages mm over a table
\* messages that holds the entries loaded, and the calls of its methods.
InitHistory ==
    /\ tz \in TzOffsets
    /\ lim = [msgs |-> 1, closes |-> 0, senders |-> {"p1"}, par |-> 2, cache |-> "up", store |-> "up"]
    /\ now = 0
    /\ store = <<>>
    /\ redis = [p \in Phones |-> NoKey]
    /\ h = [hd \in Handlers |-> IdleFrame]
    /\ nmsg = 0
    /\ r = SleepFrame(0)
    /\ c = ClientIdle
    /\ ncalls = 0
    /\ notifs = <<>>
    /\ appended = {}
    /\ n = NotifierIdle
    /\ files = {}
    /\ acks = {}
    /\ pm = RouterIdle
    /\ \E mm \in 1..MaxWindow :
       \E loaded \in {<<>>, <<DbMessage("user")>>, <<DbMessage("user"), DbMessage("assistant")>>} :
          /\ Len(loaded) <= mm
          /\ chat_history_store = (FirstSid :> SupabaseMessageHistory(mm, loaded))
    /\ last_activity_times = <<>>

NextHistory ==
    \/ \E role \in {"user", "assistant"} : add_message(FirstSid, role)
    \/ clear(FirstSid)
    \/ Tick

SpecHistory == InitHistory /\ [][NextHistory]_vars

\* The webhook with one request at a time, one direct close_session call and
\* the cleaner, each sweep being close_expired_sessions or
\* check_expired_sessions, with Supabase calls of the sweep that may raise.
InitReap ==
    /\ now = 0
    /\ tz \in TzOffsets
    /\ store = <<>>
    /\ redis = [p \in Phones |-> NoKey]
    /\ h = [hd \in Handlers |-> IdleFrame]
    /\ nmsg = 0
    /\ r = SleepFrame(0)
    /\ c = ClientIdle
    /\ ncalls = 0
    /\ \E st \in {"up", "flaky"} :
          lim = [msgs |-> MaxMsgs, closes |-> 1, senders |-> {"p1"}, par |-> 1,
                 cache |-> "up", store |-> st]
    /\ notifs = <<>>
    /\ appended = {}
    /\ n = NotifierIdle
    /\ files = {}
    /\ acks = {}
    /\ pm = RouterIdle
    /\ chat_history_store = <<>>
    /\ last_activity_times = <<>>

CleanerFault ==
    \/ SelectActiveFail
    \/ ReaperCloseReadFail
    \/ ReaperCloseWriteFail
    \/ CheckStartFail

Checker ==
    \/ CheckStart
    \/ CheckRow
    \/ CheckEnd

DirectClose ==
    \/ \E sid \in Ids : close_session(sid)
    \/ ClientCloseRead
    \/ ClientCloseWrite

NextReap == Webhook \/ Cleaner \/ CleanerFault \/ Checker \/ DirectClose \/ Tick

SpecReap == InitReap /\ [][NextReap]_vars

\* One delivery run, for each transcript a close can hand over.
Payloads == {[sid |-> FirstSid, msgs |-> m] : m \in {<<>>, FirstSession(0).msgs}}

InitNotify ==
    /\ now = 0
    /\ tz \in TzOffsets
    /\ store = <<>>
    /\ redis = [p \in Phones |-> NoKey]
    /\ h = [hd \in Handlers |-> IdleFrame]
    /\ nmsg = 0
    /\ r = SleepFrame(0)
    /\ c = ClientIdle
    /\ ncalls = 0
    /\ lim = [msgs |-> 0, closes |-> 0, senders |-> {}, par |-> 2, cache |-> "up", store |-> "up"]
    /\ notifs = <<>>
    /\ appended = {}
    /\ \E kind \in {"thread", "inline"}, pl \in Payloads : n = NotifierFrame(kind, pl)
    /\ files = {}
    /\ acks = {}
    /\ pm = RouterIdle
    /\ chat_history_store = <<>>
    /\ last_activity_times = <<>>

NextNotify ==
    \/ \E o \in Outcomes : Post(o)
    \/ Backoff
    \/ \E w \in BOOLEAN : Backup(w)
    \/ \E o \in Outcomes : InlinePost(o)
    \/ Tick

SpecNotify == InitNotify /\ [][NextNotify]_vars

\* --------------------------------------------------------------- properties
NotifsOf(s, by) == {i \in DOMAIN notifs : notifs[i].sid = s /\ notifs[i].by = by}
\* The entries of transcript msgs that carry message m with the given role.
Carries(msgs, m, role) == {i \in DOMAIN msgs : msgs[i].id = m /\ msgs[i].role = role}

\* C1: for every identity at most one row of sessions has status active, and
\* the Redis key of the identity holds at most that one session.
C1_OneActivePerIdentity ==
    \A p \in Phones : Cardinality(ActiveIds(p)) <= 1

\* C2: close_session called twice in sequence on one session id starts the
\* delivery of its transcript once.
C2_CloseIdempotent ==
    \A s \in Ids : Cardinality(NotifsOf(s, "direct")) <= 1

\* C3: when the cleaner and close_supabase_session both close one session,
\* its transcript is handed to the delivery by one of them only.
C3_OneHandoffUnderRace ==
    \A s \in Ids : NotifsOf(s, "reaper") = {} \/ NotifsOf(s, "manual") = {}

\* C4: the transcript handed to the delivery holds every exchange appended to
\* the session while it was active, each entry once.
C4_TranscriptComplete ==
    \A i \in DOMAIN notifs : \A m \in notifs[i].due :
        /\ Cardinality(Carries(notifs[i].msgs, m, "user")) = 1
        /\ Cardinality(Carries(notifs[i].msgs, m, "assistant")) = 1

\* C5: a row whose status is closed stays closed and keeps its messages.
C5_ClosedIsFinal ==
    [][\A s \in Ids : store[s].status = "closed" =>
          store'[s].status = "closed" /\ store'[s].msgs = store[s].msgs]_vars

\* C6: when the cleaner marks a session closed, the last_activity stored in
\* its row at that moment is at least the timeout old.
C6_NoEarlyReap ==
    [][\A s \in Ids : (r.pc = "cwrite" /\ r' # r /\ Active(s) /\ store'[s].status = "closed")
          => now - Instant(store[s].la) >= REDIS_TTL]_vars

\* The session ids a behaviour can create.
SidSpace == {SessionId("u1", k * ClockStep) : k \in 0..MaxTicks}
\* No request is in flight and no further message arrives.
Quiet == nmsg = lim.msgs /\ \A hd \in Handlers : h[hd].pc = "idle"
\* The cleaner's sleep is over: the next sweep can start.
SweepDue == r.pc = "sleep" /\ now >= r.wake
\* last_activity + timeout lies in the past.
Overdue(s) == now - Instant(store[s].la) > REDIS_TTL

\* C7: an active session that receives no further message and whose
\* last_activity + timeout has passed when a sweep is due is closed by the
\* cleaner.
C7_EventuallyReaped ==
    \A s \in SidSpace :
        (Quiet /\ SweepDue /\ Active(s) /\ Overdue(s)) ~> Closed(s)

\* C7, its case: with no request in flight, a sweep has closed an idle session.
C7_Witness ==
    /\ Quiet
    /\ r.pc \in {"sscan", "rdel"}
    /\ \E s \in Ids : Closed(s) /\ Overdue(s) /\ NotifsOf(s, "reaper") # {}

\* C8: a send_profile_update_async run whose attempts all failed has made
\* max_retries posts and then one write of the file, which leaves one file.
C8_RetriesThenOneBackup ==
    (n.kind = "thread" /\ n.pc = "done" /\ ~n.delivered) =>
        /\ n.posts = max_retries
        /\ n.backups = 1
        /\ Cardinality(files) <= 1
        /\ \A f \in files : f.data = n.payload

\* C8, its case: three failed posts, then the file is there.
C8_Witness ==
    /\ n.kind = "thread" /\ n.pc = "done" /\ ~n.delivered
    /\ n.posts = max_retries
    /\ \E f \in files : f.data = n.payload

\* C9: a finished delivery run has delivered the transcript or has left it in
\* failed_updates.
C9_DeliveredOrQueued ==
    n.pc = "done" => n.delivered \/ \E f \in files : f.data = n.payload

\* C10: every step that turns a row from active to closed also hands the
\* transcript of that session to the delivery.
C10_CloseAlwaysNotifies ==
    [][\A s \in Ids : (Active(s) /\ store'[s].status = "closed") =>
          /\ Len(notifs') = Len(notifs) + 1
          /\ notifs'[Len(notifs')].sid = s]_vars

\* C11: no write to a row of sessions replaces its last_activity with an
\* earlier instant.
C11_LastActivityMonotonic ==
    [][\A s \in Ids : Instant(store'[s].la) >= Instant(store[s].la)]_vars

\* No request of phone p is between its entry and its response.
Returned(p) == \A hd \in Handlers : h[hd].pc = "idle" \/ h[hd].phone # p

\* C12: a sender the users table does not know gets the apology, and once the
\* webhook has returned neither Redis nor the sessions table holds a session
\* entry of that sender.
C12_UnknownIdentityLeavesNoSession ==
    /\ \A a \in acks : get_user_id(a.phone) = None => a.reply = "apology"
    /\ \A p \in Phones : (get_user_id(p) = None /\ Returned(p)) =>
          /\ redis[p] = NoKey
          /\ \A s \in Ids : store[s].phone # p

\* C13: the webhook sends the reply of process_message only when its update
\* has written the session of the request into the sessions table.
C13_NormalReplyMeansStored ==
    \A a \in acks : a.reply = "normal" => a.written

\* C14: with Redis unreachable and Supabase answering, every message of a
\* registered sender gets the reply of process_message and the sender keeps
\* one active row.
C14_StoreOnlyWhenCacheDown ==
    (lim.cache = "down" /\ lim.store = "up") =>
        /\ \A a \in acks : a.reply = "normal"
        /\ \A p \in Phones : Cardinality(ActiveIds(p)) <= 1

\* C15: every message that is no longer being handled has its response, and
\* the response of a request whose processing, Redis write or Supabase write
\* failed is the apology.
C15_AckAlwaysApologyOnFailure ==
    /\ \A m \in 1..nmsg :
          \/ \E hd \in Handlers : h[hd].pc # "idle" /\ h[hd].m = m
          \/ \E a \in acks : a.m = m
    /\ \A a \in acks :
          a.err \cap {"process", "cache_write", "store_write"} # {} => a.reply = "apology"

\* process_message has returned success True.
Handled == pm.pc = "return" /\ pm.success

\* The handler the priority order template reply, call, introduction, plain
\* chat selects for the answers of the classifiers.
Expected ==
    IF pm.tmpl = "positive" THEN "template"
    ELSE IF pm.call > CALL_THRESHOLD THEN "call"
    ELSE IF pm.intro > INTRO_THRESHOLD THEN "intro"
    ELSE "plain"

\* C16: the handler chat.process_message runs is the first of template reply,
\* call, introduction, plain chat whose condition holds.
C16_RouterPriority ==
    (Handled /\ pm.mod = "chat") => pm.ran = <<Expected>>

\* C17: a run of process_message that returns success has executed one
\* handler.
C17_ExactlyOneHandler ==
    Handled => Len(pm.ran) = 1

\* C17, its case: both scores are over their thresholds and chat.py has
\* returned after one handler.
C17_Witness ==
    /\ Handled /\ pm.mod = "chat"
    /\ pm.call > CALL_THRESHOLD /\ pm.intro > INTRO_THRESHOLD
    /\ Len(pm.ran) = 1

\* C18: a run that returns success has appended the user message and then
\* the reply.
C18_HandlerAppendsBoth ==
    Handled => pm.msgs = <<"user", "assistant">>

\* C19: with no positive template reply, a call score over 0.8 runs the call
\* handler, which appends two entries and leaves the session active; a score
\* of 0.8 or less does not run it.
C19_CallHandlerFires ==
    Handled =>
        /\ (pm.call > CALL_THRESHOLD /\ pm.tmpl # "positive") =>
              /\ pm.ran = <<"call">>
              /\ pm.msgs = <<"user", "assistant">>
              /\ pm.status = "active"
        /\ pm.call <= CALL_THRESHOLD => \A i \in DOMAIN pm.ran : pm.ran[i] # "call"

\* A reply text without any digit: no confidence value is in it.
NoValue(t) == \A i \in DOMAIN t : t[i] \notin Digits

\* C20: a classifier reply with no value in it gives the score 0.
C20_UnparsableScoresZero ==
    [][/\ (pm.pc = "score_call" /\ NoValue(pm.text)) => pm'.call = 0
       /\ (pm.pc = "score_intro" /\ NoValue(pm.text)) => pm'.intro = 0]_vars

\* C21: on a Redis miss with an active row of the sender, get_or_create_session
\* builds its session from that row (its id, its messages), inserts no row,
\* and writes that session to Redis.
C21_HydrateFromStore ==
    [][\A hd \in Handlers :
          LET f == h[hd]
              p == f.phone
              g == h'[hd] IN
          /\ (f.pc = "lookup" /\ g # f /\ get_user_id(p) # None /\ ActiveIds(p) # {}) =>
                /\ g.pc = "setex"
                /\ g.sd.sid \in ActiveIds(p)
                /\ g.sd.msgs = (IF store[g.sd.sid].null THEN <<>> ELSE store[g.sd.sid].msgs)
                /\ store' = store
          /\ (f.pc = "setex" /\ g # f) =>
                /\ redis'[p].sd = f.sd
                /\ redis'[p].exp = now + REDIS_TTL
                /\ store' = store]_vars

\* C21, its case: the key had expired, the row is active and holds an
\* exchange, and the request is about to write the session built from it.
C21_Witness ==
    \E hd \in Handlers :
        /\ h[hd].pc = "setex"
        /\ h[hd].sd.sid \in ActiveIds(h[hd].phone)
        /\ h[hd].sd.msgs # <<>>
        /\ h[hd].sd.msgs = store[h[hd].sd.sid].msgs
        /\ ~Live(h[hd].phone)

\* After the step, Redis holds a live entry with session sid.
CachedNext(sid) == \E p \in Phones : redis'[p].exp > now' /\ redis'[p].sd.sid = sid

\* C22: when a close of a session has completed (close_session called by a
\* client, by the cleaner's Supabase loop, or by its Redis loop followed by
\* the delete), Redis holds no entry with that session.
C22_ClosedLeavesNoKey ==
    [][/\ (c.pc = "cwrite" /\ c' # c) => ~CachedNext(c.sid)
       /\ (r.pc = "cwrite" /\ r' # r /\ r.ret = "sscan") => ~CachedNext(r.sid)
       /\ (r.pc = "rdel" /\ r' # r) => redis'[r.key] = NoKey]_vars

\* C23: once the requests of a sender have returned, the session in its live
\* Redis key and the row of that session hold the same messages and the same
\* last_activity.
C23_CacheAgreesWithStore ==
    \A p \in Phones :
        (Returned(p) /\ Live(p) /\ redis[p].sd.sid \in Ids) =>
            /\ store[redis[p].sd.sid].msgs = redis[p].sd.msgs
            /\ store[redis[p].sd.sid].la = redis[p].sd.la

\* The timestamps of the entries of msgs never decrease along the list.
Sorted(msgs) ==
    \A i, j \in DOMAIN msgs : i < j => Instant(msgs[i].ts) <= Instant(msgs[j].ts)

C25_StoreWinsOnClose ==
    [][Len(notifs') = Len(notifs) + 1 =>
          LET t == notifs'[Len(notifs')] IN
          (/\ t.sid \in Ids
           /\ t.sid \in DOMAIN chat_history_store
           /\ chat_history_store[t.sid].session_messages # store[t.sid].msgs)
              => t.msgs = store[t.sid].msgs]_vars

\* C26: no delivery attempt is made while the close_session that started the
\* delivery has yet to return.
C26_DeliveryOffTheClosePath ==
    [][n'.posts > n.posts => n.caller = "returned"]_vars

\* The instant at which the sweep in progress took its clock.
SweepInstant == IF r.pc = "uscan" THEN r.rnow ELSE r.rnow - tz

\* C27: with Supabase answering, when a sweep has gone through its listed
\* rows, every row of a sender with no request in flight whose last_activity
\* was more than the timeout old when the sweep started is closed, whether or
\* not Redis holds a key of the sender.
C27_SweepClosesIdleRows ==
    (lim.store = "up" /\ r.pc \in {"sscan", "uscan"} /\ r.cands = {}) =>
        \A s \in Ids :
            (Returned(store[s].phone) /\ SweepInstant - Instant(store[s].la) > REDIS_TTL)
                => Closed(s)

\* C28: a close_session call of a sweep, whatever comes of it (the row closed,
\* closed before by someone else, or a Supabase call raising), returns to the
\* loop that made it with the candidates still to do untouched, and a sweep
\* that has listed its candidates ends only when none is left.
C28_SweepGoesOn ==
    [][/\ (r.pc \in {"cread", "cwrite"} /\ r' # r) =>
             /\ r'.pc \in {"cwrite", r.ret}
             /\ r'.keys = r.keys /\ r'.cands = r.cands
       /\ (r.pc # "sleep" /\ r'.pc = "sleep") =>
             /\ r.pc \in {"rscan", "sscan", "uscan"}
             /\ r.keys = {} /\ r.cands = {}]_vars

\* C28, its case: in one sweep a close_session call raised or met a row that
\* was closed already, and a later call of the same sweep closed its row.
C28_Witness ==
    \E i, j \in DOMAIN r.log :
        /\ i < j
        /\ r.log[i].out \in {"raised", "closed before"}
        /\ r.log[j].out = "closed"

\* C29: the session id in a live Redis key is the id of a row of sessions.
C29_CachedSessionIsStored ==
    \A p \in Phones : (Live(p) /\ redis[p].sd.sid # NoSid) => redis[p].sd.sid \in Ids

\* C30: the id a request synthesizes for the session it creates, in
\* get_or_create_session or in process_message, is the id of no row that
\* exists when the request inserts its row.
C30_FreshSessionId ==
    [][\A hd \in Handlers :
          /\ (h[hd].pc = "insert" /\ h'[hd].pc = "setex") => h[hd].sd.sid \notin Ids
          /\ (h[hd].pc = "process" /\ h'[hd].pc = "respond") => h'[hd].sd.sid \notin Ids]_vars
\* C31: in a send_profile_update_async run the waits are 2 s, then 4 s, each
\* twice the one before; there is one wait after each failed attempt but the
\* last, so the run is at attempt k after k - 1 waits, and the file of
\* failed_updates is written right after the last failed post, with no wait
\* in between.
C31_BackoffDoubles ==
    n.kind = "thread" =>
        /\ Len(n.slept) = n.attempt - 1
        /\ n.attempt <= max_retries
        /\ \A i \in DOMAIN n.slept :
              n.slept[i] = IF i = 1 THEN retry_delay0 ELSE 2 * n.slept[i - 1]
        /\ n.pc = "sleep" => ~n.delivered /\ n.posts = n.attempt
        /\ (n.pc = "backup" \/ n.backups > 0) =>
              /\ n.posts = max_retries
              /\ Len(n.slept) = max_retries - 1

\* C31, its case: three failed posts with the waits 2 s and 4 s between them,
\* and the write of the file has been tried.
C31_Witness ==
    /\ n.kind = "thread" /\ n.pc = "done" /\ n.backups = 1
    /\ n.slept = <<retry_delay0, 2 * retry_delay0>>

\* C32: the post of a send_profile_update_async run that gets status 200 ends
\* the run: the run is done with that attempt as its last post, and a run that
\* is done posts, waits and writes to failed_updates no more.
C32_StopsOnSuccess ==
    [][/\ (n.kind = "thread" /\ n.pc = "post" /\ n'.delivered) =>
             /\ n'.pc = "done"
             /\ n'.posts = n.attempt
             /\ n'.backups = 0 /\ files' = files
       /\ (n.kind = "thread" /\ n.pc = "done") => (n' = n /\ files' = files)]_vars

\* C32, its case: the second attempt got status 200 after one wait; nothing
\* is in failed_updates.
C32_Witness ==
    /\ n.kind = "thread" /\ n.pc = "done" /\ n.delivered
    /\ n.posts = 2 /\ n.slept = <<retry_delay0>> /\ n.backups = 0 /\ files = {}

\* C33: get_or_create_session does not return, from Redis or from the select
\* of the active row, a session whose row is closed at that moment; so no
\* request goes on to append its exchange to a closed row.
C33_NeverReturnsClosed ==
    [][\A hd \in Handlers :
          /\ (h[hd].pc = "get" /\ h'[hd].pc = "process") => ~Closed(h'[hd].sd.sid)
          /\ (h[hd].pc = "lookup" /\ h'[hd].pc = "setex") => ~Closed(h'[hd].sd.sid)]_vars

\* C34: a close_session of a session held in memory takes the session out of
\* chat_history_store and last_activity_times only in a step that also leaves
\* its row closed with the messages the history held.
C34_HistoryKeptUntilStored ==
    [][\A s \in DOMAIN chat_history_store :
          (c.pc = "mclose" /\ c.sid = s /\ s \in Ids /\ s \notin DOMAIN chat_history_store')
              => /\ Closed(s)'
                 /\ store'[s].msgs = c.msgs]_vars

\* C35: a run of process_message that returns success False returns the
\* session_data with the messages it was given: nothing was appended.
C35_FailureAppendsNothing ==
    (pm.pc = "return" /\ ~pm.success) => pm.msgs = RouterFrame(pm.mod, pm.known, pm.tmpl, pm.conf).msgs

\* C36: the id a call of get_active_session_id for user u returns is the id
\* of a session of u.
C36_OnlyOwnSessions ==
    (c.pc = "idle" /\ c.via = "lookup" /\ c.out # NoSid) => c.out.u = c.uid

\* C37: get_active_session_id inserts no row; the session it returns had its
\* last activity no more than SESSION_TIMEOUT before the call read the clock,
\* and a call that returns None has changed neither the rows nor the two
\* dictionaries.
C37_ReturnsOnlyLiveSessions ==
    [][(c.pc \in {"idle", "grow", "gload"} /\ c'.via = "lookup" /\ c'.pc = "idle" /\ c' # c) =>
          /\ DOMAIN store' = DOMAIN store
          /\ c'.out # NoSid => c'.at - Instant(c'.sd.la) <= SESSION_TIMEOUT
          /\ c'.out = NoSid =>
                /\ store' = store
                /\ chat_history_store' = chat_history_store
                /\ last_activity_times' = last_activity_times]_vars

\* C38: in a SupabaseMessageHistory, messages has at most max_messages entries
\* and ends with the latest messages handed to add_message, as many as fit,
\* in the order they were handed over; session_messages is all the messages
\* handed over since the history was built or cleared, in that order.
C38_WindowAndTranscript ==
    \A s \in DOMAIN chat_history_store :
        LET hist == chat_history_store[s]
            k == IF Len(hist.added) < hist.max_messages THEN Len(hist.added)
                 ELSE hist.max_messages
            len == Len(hist.messages) IN
        /\ len <= hist.max_messages
        /\ hist.session_messages = hist.added
        /\ len >= k
        /\ SubSeq(hist.messages, len - k + 1, len)
             = SubSeq(hist.added, Len(hist.added) - k + 1, Len(hist.added))

\* C38, its case: a window of two that was full of entries of the table has
\* lost the older one to the first message added.
C38_Witness ==
    \E s \in DOMAIN chat_history_store :
        LET hist == chat_history_store[s] IN
        /\ hist.max_messages = 2 /\ Len(hist.added) = 1
        /\ hist.messages = <<DbMessage("assistant"), hist.added[1]>>
        /\ hist.session_messages = hist.added

\* C39: whenever no call is in progress, every session of chat_history_store
\* has an entry in last_activity_times.
C39_HeldHistoryHasTimestamp ==
    c.pc = "idle" => DOMAIN chat_history_store \subseteq DOMAIN last_activity_times

\* C39, its case: get_chat_history and get_active_session_id have each put a
\* history into chat_history_store, and a close_session has taken one out.
C39_Witness ==
    /\ c.pc = "idle"
    /\ DOMAIN chat_history_store = {SessionId("u12", 0)}
    /\ FirstSid \in DOMAIN last_activity_times
    /\ Closed(FirstSid)
    /\ \E i \in DOMAIN notifs : notifs[i].sid = FirstSid /\ Len(notifs[i].msgs) = 2

====
